---- MODULE Spec2Model ----
(***************************************************************************)
(* Model of src/app.py: the limit-up theme dashboard.                       *)
(*                                                                          *)
(* One script run = get_zt_data_processed(date_str) behind st.cache_data,   *)
(* followed by the page rendering of its two results.                       *)
(*                                                                          *)
(* TLA+ strings are ASCII, so the column names of the source are written    *)
(* in pinyin:                                                               *)
(*   mingcheng = name column          chengjiaoe = turnover column          *)
(*   lianbanshu = board-count column  fengbanzijin = seal-order column      *)
(*   zhangtingyuanyinleibie = reason-category column, renamed to ticai      *)
(*   suoshuhangye = industry column (not in needed_cols)                    *)
(*   chengjiaoe_yi / fengbanzijin_yi = the derived "(yi)" amount columns    *)
(*   zhangtingjiashu, zongchengjiaoe, pingjunlianban, gaobiaogaodu,         *)
(*   jiashuzhanbi = the columns of theme_stats; zongchengjiaoe_yi is the    *)
(*   name lines 81 and 84 look up in theme_stats.                           *)
(* Theme texts: bandaoti, baijiu, qita (the fillna value of line 68).       *)
(***************************************************************************)
EXTENDS Integers, Sequences, FiniteSets, TLC

VARIABLES
    cache,      \* st.cache_data store of get_zt_data_processed: date -> entry
    date_str,   \* the date selected in the sidebar
    raw,        \* what ak.stock_zt_pool_em did in the last script run
    called,     \* TRUE iff the last script run called ak.stock_zt_pool_em
    df_stocks,  \* first result of get_zt_data_processed in the last run
    df_themes,  \* second result of get_zt_data_processed in the last run
    page,       \* what the last script run put on the page
    last,       \* which handler ran last
    arg,        \* input of a function applied on its own
    ret         \* its result

vars == <<cache, date_str, raw, called, df_stocks, df_themes, page, last, arg, ret>>

----------------------------------------------------------------------------
(* Bounds of the model *)

MaxRows == 2        \* rows of a fetched table
MaxMissing == 2     \* columns a fetched table may lack
MaxBoard == 3       \* largest board count in a roster
MaxLen == 4         \* rows of a styled roster
MaxUnits == 6       \* magnitude of a raw money value, in MoneyStep units
TickSeconds == 300  \* seconds that pass in one Tick

(* Program constants *)

TTL == 600          \* @st.cache_data(ttl=600)
Yi == 100000000     \* float(x) / 100000000

----------------------------------------------------------------------------
(* Cell values.  A number is the rational n/d (d = 1 for an int); a money   *)
(* string is the decimal n/d followed by a suffix s; a text is a plain      *)
(* string; nan is a missing value.                                          *)

Num(n) == [k |-> "num", n |-> n, d |-> 1, s |-> ""]
Flt(n, d) == [k |-> "num", n |-> n, d |-> d, s |-> ""]
MoneyStr(n, d, suf) == [k |-> "mstr", n |-> n, d |-> d, s |-> suf]
Text(t) == [k |-> "txt", n |-> 0, d |-> 1, s |-> t]
NaN == [k |-> "nan", n |-> 0, d |-> 1, s |-> ""]

IsNum(x) == x.k = "num"

\* equality and order of two numbers (equal denominators are compared
\* without multiplying, which keeps the products small)
RatEq(a, b) ==
    IF a.d = b.d THEN a.n = b.n
    ELSE IF a.n = 0 \/ b.n = 0 THEN a.n = b.n
    ELSE a.n * b.d = b.n * a.d

RatLess(a, b) ==
    IF a.d = b.d THEN a.n < b.n
    ELSE IF a.n = 0 THEN 0 < b.n
    ELSE IF b.n = 0 THEN a.n < 0
    ELSE a.n * b.d < b.n * a.d

RatAdd(a, b) ==
    IF a.n = 0 THEN b
    ELSE IF b.n = 0 THEN a
    ELSE IF a.d = b.d THEN Flt(a.n + b.n, a.d)
    ELSE Flt(a.n * b.d + b.n * a.d, a.d * b.d)

\* n/d rounded to the nearest integer, halves to even
RoundDiv(n, d) ==
    LET q == n \div d
        r == n % d
    IN IF 2 * r < d THEN q
       ELSE IF 2 * r > d THEN q + 1
       ELSE IF q % 2 = 0 THEN q ELSE q + 1

\* Series.round(digits) with p = 10^digits
Round(x, p) ==
    IF ~IsNum(x) THEN x
    ELSE IF x.d % p = 0 THEN Flt(RoundDiv(x.n, x.d \div p), p)
    ELSE Flt(RoundDiv(x.n * p, x.d), p)

\* truncation toward zero: astype(int)
Trunc(x) ==
    IF x.n >= 0 THEN Num(x.n \div x.d) ELSE Num(0 - ((0 - x.n) \div x.d))

----------------------------------------------------------------------------
(* Tables: a set of column names and a sequence of rows, each row a         *)
(* function from the column names to cells.                                 *)

NoFrame == [cols |-> {}, rows |-> <<>>]

\* DataFrame.empty
Empty(df) == df.cols = {} \/ df.rows = <<>>

\* df[c] = vals, one value per row
SetCol(df, c, vals) ==
    [cols |-> df.cols \cup {c},
     rows |-> [i \in 1..Len(df.rows) |->
                 [x \in df.cols \cup {c} |->
                     IF x = c THEN vals[i] ELSE df.rows[i][x]]]]


\* descending order of one key, missing values last
DescBefore(a, b) ==
    IF ~IsNum(a) THEN FALSE
    ELSE IF ~IsNum(b) THEN TRUE
    ELSE RatLess(b, a)

SameKey(a, b) == (~IsNum(a) /\ ~IsNum(b)) \/ (IsNum(a) /\ IsNum(b) /\ RatEq(a, b))

\* row a goes before row b under by=[k1, k2], ascending=[False, False]
Before(a, b, k1, k2) ==
    \/ DescBefore(a[k1], b[k1])
    \/ SameKey(a[k1], b[k1]) /\ DescBefore(a[k2], b[k2])

\* stable insertion: r goes behind every row it is not strictly before
RECURSIVE InsertRow(_, _, _, _)
InsertRow(r, sorted, k1, k2) ==
    IF sorted = <<>> THEN <<r>>
    ELSE IF Before(r, Head(sorted), k1, k2) THEN <<r>> \o sorted
    ELSE <<Head(sorted)>> \o InsertRow(r, Tail(sorted), k1, k2)

\* sort_values(by=[k1, k2], ascending=[False, False]): stable, descending
RECURSIVE sort_values(_, _, _)
sort_values(rows, k1, k2) ==
    IF rows = <<>> THEN <<>>
    ELSE InsertRow(rows[Len(rows)],
                   sort_values(SubSeq(rows, 1, Len(rows) - 1), k1, k2), k1, k2)

----------------------------------------------------------------------------
(* get_zt_data_processed *)

NeededKeys ==
    {"daima", "mingcheng", "zuixinjia", "zhangdiefu", "chengjiaoe",
     "liutongshizhi", "huanshoulv", "lianbanshu", "fengbanzijin",
     "zhangtingyuanyinleibie"}

\* the variant of needed_cols that also takes the theme from the industry column
needed_cols_industry ==
    [c \in NeededKeys \cup {"suoshuhangye"} |->
        IF c \in {"zhangtingyuanyinleibie", "suoshuhangye"} THEN "ticai" ELSE c]

needed_cols ==
    [c \in NeededKeys |-> IF c = "zhangtingyuanyinleibie" THEN "ticai" ELSE c]

\* available_cols, and df[list(available_cols.keys())].rename(columns=available_cols)
available_cols(df) == {c \in DOMAIN needed_cols : c \in df.cols}

SelectRename(df) ==
    LET avail == available_cols(df)
        named == {needed_cols[c] : c \in avail}
    IN [cols |-> named,
        rows |-> [i \in 1..Len(df.rows) |->
                    [x \in named |->
                        df.rows[i][CHOOSE c \in avail : needed_cols[c] = x]]]]

\* the variant of clean_money that reads the unit suffixes
clean_money_suffix(x) ==
    IF x.k = "num" THEN Flt(x.n, x.d * Yi)
    ELSE IF x.k = "nan" THEN NaN
    ELSE IF x.k = "mstr" /\ x.s = "yi" THEN Flt(x.n, x.d)
    ELSE IF x.k = "mstr" /\ x.s = "wan" THEN Flt(x.n, x.d * 10000)
    ELSE Flt(0, 1)

\* isinstance(x, (int, float)): a number or a float nan; float(x) / 100000000
clean_money(x) ==
    IF x.k = "num" THEN Flt(x.n, x.d * Yi)
    ELSE IF x.k = "nan" THEN NaN
    ELSE Flt(0, 1)

\* lines 56-60: the amount columns, each only when its source column is there
AddMoney(df) ==
    LET df1 == IF "chengjiaoe" \in df.cols
               THEN SetCol(df, "chengjiaoe_yi",
                           [i \in 1..Len(df.rows) |-> clean_money(df.rows[i]["chengjiaoe"])])
               ELSE df
    IN IF "fengbanzijin" \in df1.cols
       THEN SetCol(df1, "fengbanzijin_yi",
                   [i \in 1..Len(df1.rows) |-> clean_money(df1.rows[i]["fengbanzijin"])])
       ELSE df1

\* pd.to_numeric(errors='coerce'): numbers and numeric strings, else nan
to_numeric(x) ==
    IF x.k = "num" THEN x
    ELSE IF x.k = "mstr" /\ x.s = "" THEN Flt(x.n, x.d)
    ELSE NaN

\* line 63: to_numeric(...).fillna(1).astype(int)
BoardCount(x) ==
    LET v == to_numeric(x)
    IN IF v.k = "nan" THEN Num(1) ELSE Trunc(v)

\* line 68: fillna of the theme
FillTheme(x) == IF x.k = "nan" THEN Text("qita") ELSE x

\* the order of the group keys (the texts in their string order)
TextOrder == <<"", "bandaoti", "qita", "baijiu">>

GroupKeys(df) ==
    SelectSeq([i \in 1..Len(TextOrder) |-> Text(TextOrder[i])],
              LAMBDA t : \E i \in 1..Len(df.rows) : df.rows[i]["ticai"] = t)

RECURSIVE SumCol(_, _)
SumCol(rows, c) ==
    IF rows = <<>> THEN Flt(0, 1)
    ELSE IF IsNum(Head(rows)[c]) THEN RatAdd(Head(rows)[c], SumCol(Tail(rows), c))
    ELSE SumCol(Tail(rows), c)

RECURSIVE MaxCol(_, _)
MaxCol(rows, c) ==
    IF Len(rows) = 1 THEN rows[1][c]
    ELSE LET m == MaxCol(Tail(rows), c)
         IN IF RatLess(m, Head(rows)[c]) THEN Head(rows)[c] ELSE m

CountCol(rows, c) == Len(SelectSeq(rows, LAMBDA r : r[c].k # "nan"))

\* lines 71-76: groupby('ticai').agg(...).reset_index()
GroupAgg(df) ==
    LET keys == GroupKeys(df)
        grp(t) == SelectSeq(df.rows, LAMBDA r : r["ticai"] = t)
    IN [cols |-> {"ticai", "zhangtingjiashu", "zongchengjiaoe", "pingjunlianban",
                  "gaobiaogaodu"},
        rows |-> [i \in 1..Len(keys) |->
                    [x \in {"ticai", "zhangtingjiashu", "zongchengjiaoe",
                            "pingjunlianban", "gaobiaogaodu"} |->
                        CASE x = "ticai" -> keys[i]
                          [] x = "zhangtingjiashu" -> Num(CountCol(grp(keys[i]), "mingcheng"))
                          [] x = "zongchengjiaoe" -> SumCol(grp(keys[i]), "chengjiaoe_yi")
                          [] x = "pingjunlianban" ->
                                Flt(SumCol(grp(keys[i]), "lianbanshu").n, Len(grp(keys[i])))
                          [] x = "gaobiaogaodu" -> MaxCol(grp(keys[i]), "lianbanshu")]]]

\* the variant of the except branch that shows no error message
OnException_silent == [df |-> NoFrame, themes |-> NoFrame, err |-> FALSE]

\* the except branch, lines 90-92: st.error and two empty frames
OnException == [df |-> NoFrame, themes |-> NoFrame, err |-> TRUE]

Returned(df, themes) == [df |-> df, themes |-> themes, err |-> FALSE]

\* lines 65-88, on the table df with its board counts converted
ThemeStats(df) ==
    IF "ticai" \in df.cols THEN
        LET df4 == SetCol(df, "ticai",
                          [i \in 1..Len(df.rows) |-> FillTheme(df.rows[i]["ticai"])])
        IN IF ~({"mingcheng", "chengjiaoe_yi", "lianbanshu"} \subseteq df4.cols)
           THEN OnException                                    \* KeyError in agg
           ELSE
             LET total_zt == Len(df4.rows)
                 ts1 == GroupAgg(df4)
                 ts2 == SetCol(ts1, "jiashuzhanbi",
                            [i \in 1..Len(ts1.rows) |->
                                Round(Flt(ts1.rows[i]["zhangtingjiashu"].n * 100, total_zt), 10)])
             IN IF "zongchengjiaoe_yi" \notin ts2.cols
                THEN OnException                               \* KeyError, line 81
                ELSE
                  LET ts3 == SetCol(ts2, "zongchengjiaoe_yi",
                                 [i \in 1..Len(ts2.rows) |->
                                     Round(ts2.rows[i]["zongchengjiaoe_yi"], 100)])
                      ts4 == [ts3 EXCEPT !.rows =
                                 sort_values(ts3.rows, "zhangtingjiashu", "zongchengjiaoe_yi")]
                  IN Returned(df4, ts4)
    ELSE Returned(df, NoFrame)

\* out is what ak.stock_zt_pool_em did: raised, returned None, or returned a table
get_zt_data_processed(out) ==
    IF out.kind = "raise" THEN OnException
    ELSE IF out.kind = "none" THEN Returned(NoFrame, NoFrame)
    ELSE IF Empty(out.df) THEN Returned(NoFrame, NoFrame)
    ELSE
      LET df2 == AddMoney(SelectRename(out.df))
      IN IF "lianbanshu" \notin df2.cols
         THEN OnException                                      \* KeyError, line 63
         ELSE ThemeStats(SetCol(df2, "lianbanshu",
                  [i \in 1..Len(df2.rows) |-> BoardCount(df2.rows[i]["lianbanshu"])]))

----------------------------------------------------------------------------
(* The page: lines 113-218 *)

\* the variant of highlight_leader that asks for a run of at least two boards
highlight_leader_multi(s, high_board) ==
    /\ IsNum(s["lianbanshu"]) /\ IsNum(high_board)
    /\ RatEq(s["lianbanshu"], high_board)
    /\ RatLess(Num(1), high_board)

\* is_leader = s['lianbanshu'] == high_board
highlight_leader(s, high_board) ==
    /\ IsNum(s["lianbanshu"]) /\ IsNum(high_board)
    /\ RatEq(s["lianbanshu"], high_board)

\* subset[...].style.apply(highlight_leader, axis=1): one flag per row
StyleRows(subset, high_board) ==
    [i \in 1..Len(subset) |-> highlight_leader(subset[i], high_board)]

\* one pass of the loop of lines 169-205, for the row `row` of df_themes
Roster(df, row) ==
    LET theme_name == row["ticai"]
        high_board == row["gaobiaogaodu"]
        subset == sort_values(SelectSeq(df.rows, LAMBDA r : r["ticai"] = theme_name),
                              "lianbanshu", "fengbanzijin_yi")
    IN [theme |-> theme_name,
        count |-> row["zhangtingjiashu"],
        money |-> row["zongchengjiaoe_yi"],
        high_board |-> high_board,
        rows |-> subset,
        style |-> StyleRows(subset, high_board)]

BlankPage ==
    [error |-> FALSE, warning |-> FALSE, metrics |-> FALSE, charts |-> FALSE,
     rosters |-> <<>>, detail |-> FALSE, exception |-> FALSE]

ThemeCols == {"ticai", "zhangtingjiashu", "zongchengjiaoe_yi", "gaobiaogaodu", "jiashuzhanbi"}

\* res is what get_zt_data_processed returned.  Its st.error is an element of
\* the page, and st.cache_data shows it again when it serves the stored result.
\* An uncaught KeyError stops the script: what follows it is not shown.
Render(res) ==
    LET base == [BlankPage EXCEPT !.error = res.err]
    IN IF Empty(res.df) THEN [base EXCEPT !.warning = TRUE]               \* line 116
       ELSE IF ~({"chengjiaoe_yi", "lianbanshu"} \subseteq res.df.cols)
       THEN [base EXCEPT !.exception = TRUE]                              \* lines 122-125
       ELSE IF Empty(res.themes)
       THEN [base EXCEPT !.metrics = TRUE, !.detail = TRUE]
       ELSE IF ~(ThemeCols \subseteq res.themes.cols)
       THEN [base EXCEPT !.metrics = TRUE, !.exception = TRUE]            \* lines 139-172
       ELSE IF ~({"ticai", "fengbanzijin_yi"} \subseteq res.df.cols)
       THEN [base EXCEPT !.metrics = TRUE, !.charts = TRUE, !.exception = TRUE] \* 178-181
       ELSE [base EXCEPT !.metrics = TRUE, !.charts = TRUE, !.detail = TRUE,
                         !.rosters = [i \in 1..Len(res.themes.rows) |->
                                         Roster(res.df, res.themes.rows[i])]]

----------------------------------------------------------------------------
(* What the data source can do *)

Raise == [kind |-> "raise", df |-> NoFrame]
ReturnNone == [kind |-> "none", df |-> NoFrame]
Table(df) == [kind |-> "table", df |-> df]
NoOutcome == [kind |-> "nocall", df |-> NoFrame]

RawColumns ==
    {"mingcheng", "chengjiaoe", "lianbanshu", "fengbanzijin",
     "zhangtingyuanyinleibie", "suoshuhangye"}

MoneyStep == Yi \div 2

FullRows ==
    { [c \in RawColumns |->
          CASE c = "mingcheng" -> Text("A")
            [] c = "chengjiaoe" -> t
            [] c = "lianbanshu" -> b
            [] c = "fengbanzijin" -> Num(10 * MoneyStep)
            [] c = "zhangtingyuanyinleibie" -> z
            [] c = "suoshuhangye" -> Text("baijiu")] :
      t \in {Num(2 * MoneyStep), MoneyStr(235, 100, "yi")},
      b \in {Num(0), Num(3), Text("x")},
      z \in {Text("bandaoti"), Text("baijiu"), NaN} }

RowsOver(C) == {[c \in C |-> f[c]] : f \in FullRows}

SeqsUpTo(S, n) == UNION {[1..k -> S] : k \in 0..n}

ColSets(missing) ==
    {RawColumns \ D : D \in {E \in SUBSET RawColumns : Cardinality(E) <= missing}}

RawTables(missing, n) ==
    UNION {{[cols |-> C, rows |-> rs] : rs \in SeqsUpTo(RowsOver(C), n)} : C \in ColSets(missing)}

\* the outcomes of one script run on its own: tables of up to n rows that
\* lack up to `missing` columns
RichOutcomes(missing, n) ==
    {Raise, ReturnNone} \cup {Table(df) : df \in RawTables(missing, n)}

\* the outcomes used with the cache: every kind of result, from one-row tables
CacheOutcomes ==
    {Raise, ReturnNone} \cup
    {Table([cols |-> C, rows |-> rs]) :
        C \in {RawColumns, RawColumns \ {"zhangtingyuanyinleibie"}},
        rs \in {<<>>, << [c \in RawColumns |->
                           CASE c = "mingcheng" -> Text("A")
                             [] c = "chengjiaoe" -> Num(2 * MoneyStep)
                             [] c = "lianbanshu" -> Num(3)
                             [] c = "fengbanzijin" -> Num(10 * MoneyStep)
                             [] c = "zhangtingyuanyinleibie" -> Text("bandaoti")
                             [] c = "suoshuhangye" -> Text("baijiu")] >>,
                      << [c \in RawColumns |->
                           CASE c = "mingcheng" -> Text("A")
                             [] c = "chengjiaoe" -> MoneyStr(235, 100, "yi")
                             [] c = "lianbanshu" -> Text("x")
                             [] c = "fengbanzijin" -> Num(10 * MoneyStep)
                             [] c = "zhangtingyuanyinleibie" -> NaN
                             [] c = "suoshuhangye" -> Text("baijiu")] >>}}

----------------------------------------------------------------------------
(* st.cache_data(ttl=600) around get_zt_data_processed, keyed by date_str *)

Dates == {"20240102", "20240103"}

NoEntry == [has |-> FALSE, age |-> 0, val |-> Returned(NoFrame, NoFrame)]

\* the variant of Fresh that never lets an entry expire
Fresh_forever(e) == e.has

\* an entry is served while it is younger than the TTL
Fresh(e) == e.has /\ e.age < TTL

\* st.cache_data.clear(): every entry, of every date
cache_data_clear(c) == [d \in DOMAIN c |-> NoEntry]

Min(a, b) == IF a < b THEN a ELSE b

\* one run of the script for date d with the cache c, the source drawing from outs
Run(d, c, outs) ==
    /\ date_str' = d
    /\ IF Fresh(c[d])
       THEN /\ called' = FALSE
            /\ raw' = NoOutcome
            /\ cache' = c
            /\ df_stocks' = c[d].val.df
            /\ df_themes' = c[d].val.themes
            /\ page' = Render(c[d].val)
       ELSE \E out \in outs :
            LET res == get_zt_data_processed(out)
            IN /\ called' = TRUE
               /\ raw' = out
               /\ cache' = [c EXCEPT ![d] = [has |-> TRUE, age |-> 0, val |-> res]]
               /\ df_stocks' = res.df
               /\ df_themes' = res.themes
               /\ page' = Render(res)

NoArg == [k |-> "none", x |-> NaN, subset |-> <<>>, high_board |-> NaN]
NoRet == [k |-> "none", v |-> NaN, style |-> <<>>]

Init ==
    /\ cache = [d \in Dates |-> NoEntry]
    /\ date_str = "20240102"
    /\ raw = NoOutcome
    /\ called = FALSE
    /\ df_stocks = NoFrame
    /\ df_themes = NoFrame
    /\ page = BlankPage
    /\ last = "init"
    /\ arg = NoArg
    /\ ret = NoRet

\* the date input changes, or the page is loaded again: the script runs
SelectDate(d) ==
    /\ last' = "query"
    /\ Run(d, cache, CacheOutcomes)
    /\ UNCHANGED <<arg, ret>>

\* the refresh button: st.cache_data.clear() and st.rerun()
Refresh ==
    /\ last # "init"
    /\ last' = "refresh"
    /\ Run(date_str, cache_data_clear(cache), CacheOutcomes)
    /\ UNCHANGED <<arg, ret>>

\* time passes
Tick ==
    /\ \E d \in Dates : Fresh(cache[d])
    /\ cache' = [d \in Dates |->
                   IF cache[d].has
                   THEN [cache[d] EXCEPT !.age = Min(cache[d].age + TickSeconds, TTL)]
                   ELSE cache[d]]
    /\ last' = "tick"
    /\ UNCHANGED <<date_str, raw, called, df_stocks, df_themes, page, arg, ret>>

Next == Tick \/ Refresh \/ \E d \in Dates : SelectDate(d)

Spec == Init /\ [][Next]_vars

\* the first run of the script in a session, nothing cached yet
FirstLoad ==
    /\ last = "init"
    /\ last' = "load"
    /\ Run(date_str, cache, RichOutcomes(MaxMissing, MaxRows))
    /\ UNCHANGED <<arg, ret>>

SpecCycle == Init /\ [][FirstLoad]_vars

----------------------------------------------------------------------------
(* clean_money applied on its own to one raw value *)

MoneyInputs ==
    {Num(u * MoneyStep) : u \in 0..MaxUnits}
    \cup {MoneyStr(u, d, suf) : u \in 0..MaxUnits, d \in {1, 100},
                                suf \in {"", "yi", "wan", "garbage"}}
    \cup {MoneyStr(235, 100, "yi"), MoneyStr(5800, 1, "wan"), Num(123456789),
          Text("garbage"), NaN}

InitMoney ==
    /\ cache = [d \in Dates |-> NoEntry]
    /\ date_str = "20240102"
    /\ raw = NoOutcome
    /\ called = FALSE
    /\ df_stocks = NoFrame
    /\ df_themes = NoFrame
    /\ page = BlankPage
    /\ last = "init"
    /\ arg \in {[NoArg EXCEPT !.k = "money", !.x = x] : x \in MoneyInputs}
    /\ ret = NoRet

ApplyCleanMoney ==
    /\ arg.k = "money"
    /\ ret = NoRet
    /\ ret' = [NoRet EXCEPT !.k = "money", !.v = clean_money(arg.x)]
    /\ UNCHANGED <<cache, date_str, raw, called, df_stocks, df_themes, page, last, arg>>

SpecMoney == InitMoney /\ [][ApplyCleanMoney]_vars

----------------------------------------------------------------------------
(* highlight_leader applied on its own to the roster of one theme: subset   *)
(* is the roster, high_board the largest board count in it                  *)

RosterRows == {[c \in {"lianbanshu"} |-> Num(b)] : b \in 1..MaxBoard}

InitLeader ==
    /\ cache = [d \in Dates |-> NoEntry]
    /\ date_str = "20240102"
    /\ raw = NoOutcome
    /\ called = FALSE
    /\ df_stocks = NoFrame
    /\ df_themes = NoFrame
    /\ page = BlankPage
    /\ last = "init"
    /\ arg \in {[NoArg EXCEPT !.k = "roster", !.subset = rs,
                              !.high_board = MaxCol(rs, "lianbanshu")] :
                  rs \in SeqsUpTo(RosterRows, MaxLen) \ {<<>>}}
    /\ ret = NoRet

ApplyHighlight ==
    /\ arg.k = "roster"
    /\ ret = NoRet
    /\ ret' = [NoRet EXCEPT !.k = "style", !.style = StyleRows(arg.subset, arg.high_board)]
    /\ UNCHANGED <<cache, date_str, raw, called, df_stocks, df_themes, page, last, arg>>

SpecLeader == InitLeader /\ [][ApplyHighlight]_vars

----------------------------------------------------------------------------
(* Properties *)

\* the last run fetched a table with rows
FetchedRows == raw.kind = "table" /\ ~Empty(raw.df)

\* the last run fetched a table with rows that carries the columns in C
FetchedWith(C) == FetchedRows /\ C \subseteq raw.df.cols

Positions(df) == 1..Len(df.rows)

\* how many rows of rows equal r
Times(rows, r) == Cardinality({i \in 1..Len(rows) : rows[i] = r})

\* rows is non-increasing in (k1, k2)
NonIncreasing(rows, k1, k2) ==
    \A j \in 1..(Len(rows) - 1) : ~Before(rows[j + 1], rows[j], k1, k2)

\* C1: for a fetched table with rows that carries the theme, name, turnover
\* and board-count columns, the enriched table is not empty and the summary
\* has exactly one row per theme of the enriched records, with the count of
\* its records, the sum of their turnover and the largest of their board
\* counts, so the counts add up to the number of enriched records.
C1_SummaryPerTheme ==
    FetchedWith({"zhangtingyuanyinleibie", "mingcheng", "chengjiaoe", "lianbanshu"}) =>
        /\ ~Empty(df_stocks)
        /\ "ticai" \in df_stocks.cols
        /\ {"ticai", "zhangtingjiashu", "zongchengjiaoe_yi", "gaobiaogaodu"}
               \subseteq df_themes.cols
        /\ \A i \in Positions(df_stocks) :
              Cardinality({j \in Positions(df_themes) :
                  df_themes.rows[j]["ticai"] = df_stocks.rows[i]["ticai"]}) = 1
        /\ \A j \in Positions(df_themes) :
              LET members == SelectSeq(df_stocks.rows,
                                 LAMBDA r : r["ticai"] = df_themes.rows[j]["ticai"])
              IN /\ members # <<>>
                 /\ df_themes.rows[j]["zhangtingjiashu"] = Num(Len(members))
                 /\ RatEq(df_themes.rows[j]["zongchengjiaoe_yi"],
                          SumCol(members, "chengjiaoe_yi"))
                 /\ df_themes.rows[j]["gaobiaogaodu"] = MaxCol(members, "lianbanshu")
        /\ SumCol(df_themes.rows, "zhangtingjiashu").n = Len(df_stocks.rows)

PriorityTheme(i) ==
    IF "zhangtingyuanyinleibie" \in raw.df.cols
    THEN raw.df.rows[i]["zhangtingyuanyinleibie"]
    ELSE IF "suoshuhangye" \in raw.df.cols THEN raw.df.rows[i]["suoshuhangye"]
    ELSE Text("qita")

\* C3 as stated, on the fetched tables that lack the reason-category column
\* and carry the board-count column: every record gets the theme of the first
\* candidate column present, or the default theme when none is, and is
\* aggregated under it.
C3_PriorityOrDefault ==
    (FetchedWith({"lianbanshu"}) /\ "zhangtingyuanyinleibie" \notin raw.df.cols) =>
        /\ "ticai" \in df_stocks.cols
        /\ Len(df_stocks.rows) = Len(raw.df.rows)
        /\ \A i \in Positions(df_stocks) : df_stocks.rows[i]["ticai"] = PriorityTheme(i)
        /\ ~Empty(df_themes)

\* C3 amended: only the reason-category column is read for the theme.  When
\* the fetched table lacks it (and carries the board-count column), whether
\* or not the industry column is there, every record is returned without a
\* theme field, no default theme is made up, and the theme summary is empty.
C3_ReasonColumnOnly ==
    (FetchedWith({"lianbanshu"}) /\ "zhangtingyuanyinleibie" \notin raw.df.cols) =>
        /\ ~Empty(df_stocks)
        /\ Len(df_stocks.rows) = Len(raw.df.rows)
        /\ "ticai" \notin df_stocks.cols
        /\ "suoshuhangye" \notin df_stocks.cols
        /\ df_themes = NoFrame
        /\ ~page.error

C3_Witness ==
    /\ FetchedWith({"lianbanshu", "suoshuhangye"})
    /\ "zhangtingyuanyinleibie" \notin raw.df.cols
    /\ ~Empty(df_stocks)
    /\ page.detail

\* C4 as stated, on the fetched tables that lack the board-count or the
\* turnover column: the run raises nothing and reports no error, the result
\* is not empty, an absent board-count column gives board count 1 and an
\* absent turnover or seal-order column gives the amount 0.0 in every record.
C4_FailSoft ==
    (FetchedRows /\ ~({"lianbanshu", "chengjiaoe"} \subseteq raw.df.cols)) =>
        /\ ~page.exception
        /\ ~page.error
        /\ ~Empty(df_stocks)
        /\ {"lianbanshu", "chengjiaoe_yi", "fengbanzijin_yi"} \subseteq df_stocks.cols
        /\ "lianbanshu" \notin raw.df.cols =>
              \A i \in Positions(df_stocks) : df_stocks.rows[i]["lianbanshu"] = Num(1)
        /\ "chengjiaoe" \notin raw.df.cols =>
              \A i \in Positions(df_stocks) :
                  RatEq(df_stocks.rows[i]["chengjiaoe_yi"], Flt(0, 1))
        /\ "fengbanzijin" \notin raw.df.cols =>
              \A i \in Positions(df_stocks) :
                  RatEq(df_stocks.rows[i]["fengbanzijin_yi"], Flt(0, 1))

\* C5: every record of the enriched table returned has a theme that is a
\* non-empty string and a board count that is an integer >= 1.
C5_ThemeAndBoard ==
    \A i \in Positions(df_stocks) :
        /\ "ticai" \in df_stocks.cols
        /\ df_stocks.rows[i]["ticai"].k = "txt"
        /\ df_stocks.rows[i]["ticai"].s # ""
        /\ "lianbanshu" \in df_stocks.cols
        /\ IsNum(df_stocks.rows[i]["lianbanshu"])
        /\ df_stocks.rows[i]["lianbanshu"].d = 1
        /\ df_stocks.rows[i]["lianbanshu"].n >= 1

\* the fetch raised, returned None or returned an empty table
FetchFailed == raw.kind \in {"raise", "none"} \/ (raw.kind = "table" /\ Empty(raw.df))

\* C6 as stated: after a failed fetch both results are empty, no exception
\* leaves the run, and the page shows the no-data warning and nothing else.
C6_OnlyWarning ==
    FetchFailed =>
        /\ df_stocks = NoFrame
        /\ df_themes = NoFrame
        /\ page = [BlankPage EXCEPT !.warning = TRUE]

\* C6 amended: after a failed fetch both results are empty, no exception
\* leaves the run, and the page shows the no-data warning; when the fetch
\* raised, the error message of the except branch is shown as well.
C6_WarningAndError ==
    FetchFailed =>
        /\ df_stocks = NoFrame
        /\ df_themes = NoFrame
        /\ page = [BlankPage EXCEPT !.warning = TRUE, !.error = (raw.kind = "raise")]

C6_Witness == raw.kind = "raise" /\ page.warning /\ page.error /\ Empty(df_stocks)

\* C7 as stated: a string with the suffix yi gives its numeric part, a string
\* with the suffix wan gives its numeric part divided by 10000, a bare number
\* gives the number divided by 100000000, and a text that is no number
\* gives 0.0.
C7_SuffixScaling ==
    ret.k = "money" =>
        /\ IsNum(ret.v) \/ arg.x.k = "nan"
        /\ (arg.x.k = "mstr" /\ arg.x.s = "yi") => RatEq(ret.v, Flt(arg.x.n, arg.x.d))
        /\ (arg.x.k = "mstr" /\ arg.x.s = "wan") =>
              RatEq(ret.v, Flt(arg.x.n, arg.x.d * 10000))
        /\ arg.x.k = "num" => RatEq(ret.v, Flt(arg.x.n, arg.x.d * Yi))
        /\ (arg.x.k = "txt" \/ (arg.x.k = "mstr" /\ arg.x.s = "garbage")) =>
              RatEq(ret.v, Flt(0, 1))

\* C7 amended: a bare int or float gives the value divided by 100000000 (a
\* float nan stays nan); every other value, a string with the suffix yi or
\* wan and a numeric-looking string included, gives 0.0; nothing is raised.
C7_NumbersOnly ==
    ret.k = "money" =>
        /\ arg.x.k = "num" => (IsNum(ret.v) /\ RatEq(ret.v, Flt(arg.x.n, arg.x.d * Yi)))
        /\ arg.x.k = "nan" => ret.v = NaN
        /\ arg.x.k \in {"mstr", "txt"} => (IsNum(ret.v) /\ ret.v.n = 0)

C7_Witness ==
    /\ ret.k = "money"
    /\ arg.x = MoneyStr(235, 100, "yi")
    /\ RatEq(ret.v, Flt(0, 1))

C10_CachePolicy ==
    [][ /\ (last' = "query" /\ cache[date_str'].has /\ cache[date_str'].age < TTL) =>
              /\ ~called'
              /\ df_stocks' = cache[date_str'].val.df
              /\ df_themes' = cache[date_str'].val.themes
              /\ page' = Render(cache[date_str'].val)
              /\ cache' = cache
        /\ (last' = "query" /\ ~(cache[date_str'].has /\ cache[date_str'].age < TTL)) =>
              /\ called'
              /\ raw'.kind # "nocall"
              /\ df_stocks' = get_zt_data_processed(raw').df
              /\ df_themes' = get_zt_data_processed(raw').themes
              /\ cache'[date_str'] =
                    [has |-> TRUE, age |-> 0, val |-> get_zt_data_processed(raw')]
        /\ last' = "refresh" =>
              /\ called'
              /\ raw'.kind # "nocall"
              /\ df_stocks' = get_zt_data_processed(raw').df
              /\ df_themes' = get_zt_data_processed(raw').themes
              /\ \A d \in Dates \ {date_str'} : ~cache'[d].has
      ]_vars

\* a memoized failure is served again while time passes, and an entry as old
\* as the TTL sits beside it
C10_Witness ==
    /\ last = "query"
    /\ ~called
    /\ page.error
    /\ cache[date_str].has /\ cache[date_str].age > 0 /\ cache[date_str].age < TTL
    /\ \E d \in Dates : cache[d].has /\ cache[d].age >= TTL

====
